---- MODULE Spec2Model ----
(***************************************************************************)
(* DVCWorker (src/PostprocessingServer/DVCWorker.py): the publish workflow *)
(* add -> push -> upload of the manifest, the commit step of the manifest  *)
(* archive, ensure_dvc_repository / configure_remote, and pull.            *)
(*                                                                         *)
(* External collaborators (git, dvc, the object store, the file copy) are  *)
(* opaque: the exit status of every invocation is an input of the action   *)
(* that makes it.  What the worker does with each status is the code's.    *)
(***************************************************************************)
EXTENDS Naturals, Sequences, FiniteSets, TLC

\* ------------------------------------------------------------------ bounds
\* Number of distinct contents the artifact folder can take (content ids).
MaxContent == 2
\* Number of calls made on the worker (and rewrites of the artifact folder
\* between them) in one run.
MaxCalls == 2

\* ------------------------------------------------------------------ inputs
\* Folder paths handed to add / add_and_push_data / push (one parent
\* directory; a folder is named by its basename).  "missing" never exists.
Folders == {"result", "missing"}
\* folder_name / dvc_filename arguments (the manifest is "<name>.dvc").
Names == {"result", "other"}
\* stage_type arguments.
Stages == {"preprocess", "train"}
\* Destination folders handed to pull / ensure_dvc_repository.
DestFolders == {"dest", "nodest"}
\* Destination folders that exist on disk.
ExistingDest == {"dest"}
\* Basenames a manifest "<basename>.dvc" can carry in the parent directory.
AllNames == Folders \cup Names
\* Archive files {git_repo_path}/{stage}/{stage}_{name}/{name}.dvc and remote
\* keys {dag_id}_{execution_id}/{stage}/dvc_files/{name}.dvc are both
\* identified by <<stage, name>>.
Keys == Stages \X Names

VARIABLES
    content,      \* content id of folder "result" (1..MaxContent)
    manifest,     \* [AllNames -> 0..MaxContent]: <name>.dvc in the parent dir, 0 = absent
    archive,      \* [Keys -> 0..MaxContent]: manifest copies in the working tree of git_repo_path
    gitHead,      \* [Keys -> 0..MaxContent]: what the last commit of git_repo_path holds
    bucket,       \* BOOLEAN: minio_bucket exists in the object store
    remote,       \* [Keys -> 0..MaxContent]: manifest copies under .../dvc_files/
    pushed,       \* SUBSET AllNames: artifacts whose payload dvc push has sent
    dvcDir,       \* BOOLEAN: dest/.dvc exists
    remoteCfg,    \* [url, applied]: dvc remote of dest; applied = configuration commands done
    destManifest, \* [Names -> 0..MaxContent]: dest/<name>.dvc
    destPayload,  \* BOOLEAN: dvc pull has populated dest
    parentCfg,    \* [url, applied]: dvc remote of the parent directory of the artifact folders
    pc,           \* position inside add_and_push_data: "idle", "add", "push", "upload"
    args,         \* arguments of the add_and_push_data call in progress
    cmds,         \* external invocations made by the current (or last) call, in order
    steps,        \* steps add_and_push_data has invoked in the current call, in order
    sub,          \* [SubNames -> result]: what each callee of the current call returned
    ret,          \* what the last finished call handed to its caller
    ncalls        \* calls (and folder rewrites) made so far

vars == <<content, manifest, archive, gitHead, bucket, remote, pushed, dvcDir,
          remoteCfg, destManifest, destPayload, parentCfg, pc, args, cmds, steps,
          sub, ret, ncalls>>

disk   == <<content, manifest, archive, gitHead>>
store  == <<bucket, remote, pushed>>
dest   == <<dvcDir, remoteCfg, destManifest, destPayload>>

\* ----------------------------------------------------------------- results
\* A result is what a method hands back: mode "return" (a status dict) or
\* "raise" (an exception reaches the caller).  kind is the class of the
\* failure, msg tells the dicts of one method apart, by names the method
\* that built the dict (or raised).
Res(mode, status, kind, msg, by) ==
    [mode |-> mode, status |-> status, kind |-> kind, msg |-> msg, by |-> by]

Ok(msg, by)        == Res("return", "success", "none", msg, by)
Err(kind, msg, by) == Res("return", "error", kind, msg, by)
Raise(kind, msg, by) == Res("raise", "none", kind, msg, by)
\* A method that returns nothing (ensure_dvc_repository).
None(by)           == Res("return", "none", "none", "None", by)
\* Not called (yet).
NoRes              == Res("none", "none", "none", "none", "none")

SubNames == {"add", "commit", "push", "upload", "ensure", "config", "download",
             "bucket_exists"}
NoSub == [s \in SubNames |-> NoRes]

Failed(r) == r.mode = "raise" \/ r.status = "error"

\* ---------------------------------------------------------------- outcomes
\* Exit statuses of the external invocations one call can make (TRUE = the
\* command exits zero / the object-store call does not raise).
\* The outcome of a command that is never run (an earlier one of the same
\* chain failed) is fixed to TRUE: it cannot be observed.
GitOutcomes ==
    {o \in [gitAdd : BOOLEAN, gitStatus : BOOLEAN, gitCommit : BOOLEAN] :
        /\ ~o.gitAdd => o.gitStatus
        /\ ~(o.gitAdd /\ o.gitStatus) => o.gitCommit}
\* wrote: dvc add, exiting zero, left <basename>.dvc in the parent directory.
AddOutcomes ==
    {o \in [dvcAdd : BOOLEAN, wrote : BOOLEAN, copy : BOOLEAN,
            gitAdd : BOOLEAN, gitStatus : BOOLEAN, gitCommit : BOOLEAN] :
        /\ ~o.dvcAdd => o.wrote /\ o.copy
        /\ ~(o.dvcAdd /\ o.copy) => o.gitAdd
        /\ ~o.gitAdd => o.gitStatus
        /\ ~(o.gitAdd /\ o.gitStatus) => o.gitCommit}
PushOutcomes == [dvcPush : BOOLEAN]
\* head = FALSE: head_bucket raises although the bucket may exist (a fault).
UploadOutcomes ==
    {o \in [head : BOOLEAN, create : BOOLEAN, upload : BOOLEAN] :
        ~o.create => o.upload}

\* The remote configuration commands of configure_remote, in the order run.
CfgCmds == <<"dvc remote add", "dvc remote modify endpointurl",
             "dvc remote modify access_key_id",
             "dvc remote modify secret_access_key",
             "dvc remote modify use_ssl">>
\* cfg: how many of CfgCmds exit zero before the first one that does not.
EnsureOutcomes ==
    {o \in [init : BOOLEAN, head : BOOLEAN, create : BOOLEAN,
            cfg : 0..Len(CfgCmds)] :
        /\ ~o.init => o.head /\ o.create
        /\ ~(o.init /\ o.create) => o.cfg = Len(CfgCmds)}
PullOutcomes ==
    {o \in [init : BOOLEAN, head : BOOLEAN, create : BOOLEAN,
            cfg : 0..Len(CfgCmds), download : BOOLEAN, dvcPull : BOOLEAN] :
        /\ ~o.init => o.head /\ o.create /\ o.download
        /\ ~(o.init /\ o.create) => o.cfg = Len(CfgCmds)
        /\ ~o.download => o.dvcPull}

Min(a, b) == IF a <= b THEN a ELSE b
\* Command c is among the invocations ran.
Ran(c, ran) == \E i \in 1..Len(ran) : ran[i] = c

\* ---------------------------------------------------------- the filesystem
\* The artifact folders that exist on disk.
ExistingFolders == {"result"}
\* (variant: the existence check is left out)
FolderExists_unchecked(path) == TRUE
\* folder_path.exists() for the folder arguments of add / add_and_push_data.
FolderExists(path) == path \in ExistingFolders
\* (variant: the existence check is left out)
DestExists_unchecked(folder) == TRUE
\* folder_path.exists() for the destination of pull.
DestExists(folder) == folder \in ExistingDest

\* --------------------------------------------------------- the commit step
\* (variant: every file of the archive is reported, committed or not)
StatusPorcelain_all(arch, head) == {k \in Keys : arch[k] # 0}
\* Output of git status --porcelain after git add . : the archive files
\* that differ from the last commit.  Empty = nothing to commit.
StatusPorcelain(arch, head) == {k \in Keys : arch[k] # head[k]}

\* git_add_commit_and_push on working tree arch and last commit head.
\* Gives the returned dict, the commit the repository ends on, and the git
\* commands run.
git_add_commit_and_push(arch, head, o) ==
    IF ~o.gitAdd
    THEN [res |-> Err("ExternalToolError", "CalledProcessError", "commit"),
          head |-> head, cmds |-> <<"git add">>]
    ELSE IF ~o.gitStatus
    THEN [res |-> Err("ExternalToolError", "CalledProcessError", "commit"),
          head |-> head, cmds |-> <<"git add", "git status">>]
    ELSE IF StatusPorcelain(arch, head) = {}
    THEN [res |-> Ok("No changes to commit", "commit"),
          head |-> head, cmds |-> <<"git add", "git status">>]
    ELSE IF ~o.gitCommit
    THEN [res |-> Err("ExternalToolError", "CalledProcessError", "commit"),
          head |-> head, cmds |-> <<"git add", "git status", "git commit">>]
    ELSE [res |-> Ok("Changes committed", "commit"),
          head |-> arch, cmds |-> <<"git add", "git status", "git commit">>]

\* ---------------------------------------------------------------------- add
\* (variant: the manifest is taken to be there once dvc add exits zero)
dvc_file_exists_unchecked(m, name) == TRUE
\* dvc_file.exists() for {folder_name}.dvc in the parent directory holding
\* the manifests m.
dvc_file_exists(m, name) == m[name] # 0

\* What add returns once the commit step has handed back commitRes: the
\* dict git_add_commit_and_push returns is not bound to anything.
AddReturn(commitRes) == Ok("added and committed", "add")

\* add(folder_path, folder_name, stage_type).  Gives the result, the commit
\* step's result (NoRes when it was not run), the files afterwards and the
\* invocations made.
add(path, name, stage, o) ==
    LET same == [res |-> NoRes, commit |-> NoRes, manifest |-> manifest,
                 archive |-> archive, head |-> gitHead, cmds |-> <<>>]
    IN
    IF ~FolderExists(path)
    THEN [same EXCEPT !.res = Raise("NotFoundError", "folder does not exist", "add")]
    ELSE IF ~o.dvcAdd
    THEN [same EXCEPT !.res = Err("ExternalToolError", "CalledProcessError", "add"),
                      !.cmds = <<"dvc add">>]
    ELSE
      LET m1 == IF o.wrote THEN [manifest EXCEPT ![path] = content] ELSE manifest
      IN
      IF ~dvc_file_exists(m1, name)
      THEN [same EXCEPT !.res = Err("IntegrityError", ".dvc file not found", "add"),
                        !.manifest = m1, !.cmds = <<"dvc add">>]
      ELSE IF ~o.copy
      THEN [same EXCEPT !.res = Raise("OSError", "copy failed", "add"),
                        !.manifest = m1, !.cmds = <<"dvc add", "copy">>]
      ELSE
        LET a1 == [archive EXCEPT ![<<stage, name>>] = m1[name]]
            g  == git_add_commit_and_push(a1, gitHead, o)
        IN [res |-> AddReturn(g.res), commit |-> g.res, manifest |-> m1,
            archive |-> a1, head |-> g.head,
            cmds |-> <<"dvc add", "copy">> \o g.cmds]

\* --------------------------------------------------------------------- push
\* (variant: dvc is initialized afresh in the parent directory before the push)
push_reinit(path, o) ==
    [res |-> IF o.dvcPush THEN Ok("stdout/stderr", "push")
             ELSE Err("ExternalToolError", "stdout/stderr", "push"),
     pushed |-> IF o.dvcPush
                THEN pushed \cup {n \in AllNames : manifest[n] # 0}
                ELSE pushed,
     cfg |-> [url |-> "none", applied |-> 0],
     cmds |-> <<"dvc init", "dvc push">>]
\* push(folder_path): dvc push in the parent directory sends the payload of
\* every manifest found there; cfg is the dvc remote of that directory
\* afterwards.
push(path, o) ==
    IF o.dvcPush
    THEN [res |-> Ok("stdout/stderr", "push"),
          pushed |-> pushed \cup {n \in AllNames : manifest[n] # 0},
          cfg |-> parentCfg,
          cmds |-> <<"dvc push">>]
    ELSE [res |-> Err("ExternalToolError", "stdout/stderr", "push"),
          pushed |-> pushed, cfg |-> parentCfg, cmds |-> <<"dvc push">>]

\* --------------------------------------------------------------- target key
\* (variant: the key has no stage_type segment, so every stage shares it)
target_path_flat(stage, name) == <<"preprocess", name>>
\* The object key upload_dvc_file_to_minio writes:
\* {dag_id}_{execution_id}/{stage_type}/dvc_files/{folder_name}.dvc
target_path(stage, name) == <<stage, name>>

\* ------------------------------------------------------------ bucket probe
\* What s3_client.head_bucket raises on a store where the bucket exists (b)
\* or not: "none" when it returns normally, NoSuchBucket when the bucket is
\* absent, another exception on a fault (o.head = FALSE).
head_bucket(b, o) ==
    IF ~b THEN "NoSuchBucket" ELSE IF ~o.head THEN "Exception" ELSE "none"

\* (variant: only NoSuchBucket is answered False)
bucket_exists_unless_missing(b, o) == head_bucket(b, o) # "NoSuchBucket"
\* bucket_exists: True when head_bucket does not raise; False for
\* NoSuchBucket and for any other exception.
bucket_exists(b, o) == head_bucket(b, o) = "none"

\* The call of bucket_exists as a result: kind is what head_bucket raised,
\* msg the boolean returned.
BucketProbe(b, o) ==
    Res("return", "none", head_bucket(b, o),
        IF bucket_exists(b, o) THEN "True" ELSE "False", "bucket_exists")

\* ------------------------------------------------------------------ upload
\* upload_dvc_file_to_minio(<name>.dvc, stage_type).
upload_dvc_file_to_minio(name, stage, o) ==
    LET exists == bucket_exists(bucket, o)
        probe  == IF exists THEN <<"head_bucket">>
                  ELSE <<"head_bucket", "create_bucket">>
    IN
    IF ~exists /\ ~o.create
    THEN [res |-> Err("StorageError", "create_bucket failed", "upload"),
          exists |-> BucketProbe(bucket, o),
          bucket |-> bucket, remote |-> remote, cmds |-> probe]
    ELSE IF ~o.upload \/ manifest[name] = 0
    THEN [res |-> Err("StorageError", "upload_file failed", "upload"),
          exists |-> BucketProbe(bucket, o),
          bucket |-> TRUE, remote |-> remote,
          cmds |-> Append(probe, "upload_file")]
    ELSE [res |-> Ok("uploaded", "upload"),
          exists |-> BucketProbe(bucket, o),
          bucket |-> TRUE,
          remote |-> [remote EXCEPT ![target_path(stage, name)] = manifest[name]],
          cmds |-> Append(probe, "upload_file")]

\* -------------------------------------------------------- configure_remote
\* The dvc remote of a folder: url names the stage_type of
\* s3://{bucket}/{dag_id}_{execution_id}/{stage_type}/dataset ("none" = no
\* remote), applied = how many of CfgCmds have been applied to it.
NoRemote == [url |-> "none", applied |-> 0]

\* configure_remote(project_path, minio_bucket, stage_type) on a folder whose
\* remote is cfg0.
configure_remote(cfg0, stage, o) ==
    LET exists == bucket_exists(bucket, o)
        probe  == IF exists THEN <<"head_bucket">>
                  ELSE <<"head_bucket", "create_bucket">>
        ran    == SubSeq(CfgCmds, 1, Min(o.cfg + 1, Len(CfgCmds)))
    IN
    IF ~exists /\ ~o.create
    THEN [res |-> Err("StorageError", "create_bucket failed", "config"),
          bucket |-> bucket, cfg |-> cfg0, cmds |-> probe]
    ELSE [res |-> IF o.cfg = Len(CfgCmds)
                  THEN Ok("remote configured", "config")
                  ELSE Err("ExternalToolError", "CalledProcessError", "config"),
          bucket |-> TRUE,
          cfg |-> IF o.cfg >= 1 THEN [url |-> stage, applied |-> o.cfg] ELSE cfg0,
          cmds |-> probe \o ran]

\* ----------------------------------------------------------- initialize_dvc
\* initialize_dvc(dvc_repo_path, stage_type) on the existing folder dest:
\* dvc init --no-scm when .dvc is absent (a non-zero exit raises
\* CalledProcessError), ensure_git_repository (git_repo_path/.git exists
\* since construction: nothing to run), then configure_remote, whose result
\* it returns.
initialize_dvc(stage, o) ==
    IF ~dvcDir /\ ~o.init
    THEN [res |-> Raise("ExternalToolError", "CalledProcessError", "init"),
          config |-> NoRes, dvcDir |-> dvcDir, bucket |-> bucket,
          cfg |-> remoteCfg, cmds |-> <<"dvc init">>]
    ELSE
      LET c == configure_remote(remoteCfg, stage, o)
      IN [res |-> c.res, config |-> c.res, dvcDir |-> TRUE,
          bucket |-> c.bucket, cfg |-> c.cfg,
          cmds |-> (IF dvcDir THEN <<>> ELSE <<"dvc init">>) \o c.cmds]

\* What ensure_dvc_repository hands back after initialize_dvc returned
\* initRes (it raised when initRes.mode = "raise").
EnsureReturn(initRes) ==
    IF initRes.mode = "raise" THEN initRes ELSE None("ensure")

\* ---------------------------------------------------- ensure_dvc_repository
\* (variant: initialize_dvc is called whether or not .dvc exists)
ensure_dvc_repository_always(folder, stage, o) ==
    IF ~DestExists(folder)
    THEN [res |-> Raise("NotFoundError", "cwd does not exist", "init"),
          config |-> NoRes, dvcDir |-> dvcDir, bucket |-> bucket,
          cfg |-> remoteCfg, cmds |-> <<>>]
    ELSE LET i == initialize_dvc(stage, o)
         IN [res |-> EnsureReturn(i.res), config |-> i.config,
             dvcDir |-> i.dvcDir, bucket |-> i.bucket, cfg |-> i.cfg,
             cmds |-> i.cmds]
\* ensure_dvc_repository(folder_path, stage_type).  A folder that does not
\* exist has no .dvc, and dvc init cannot be started in it.
ensure_dvc_repository(folder, stage, o) ==
    LET same == [res |-> None("ensure"), config |-> NoRes, dvcDir |-> dvcDir,
                 bucket |-> bucket, cfg |-> remoteCfg, cmds |-> <<>>]
    IN
    IF ~DestExists(folder)
    THEN [same EXCEPT !.res = Raise("NotFoundError", "cwd does not exist", "init")]
    ELSE IF dvcDir
    THEN same
    ELSE LET i == initialize_dvc(stage, o)
         IN [res |-> EnsureReturn(i.res), config |-> i.config,
             dvcDir |-> i.dvcDir, bucket |-> i.bucket, cfg |-> i.cfg,
             cmds |-> i.cmds]

\* --------------------------------------------------------------------- pull
\* (variant: a failed download is not noticed)
download_file_unchecked(stage, fn, o) == TRUE
\* s3_client.download_file of key {dag_id}_{execution_id}/{stage}/dvc_files/{fn}
\* does not raise: the key exists and the transfer succeeds.
download_file(stage, fn, o) == o.download /\ remote[<<stage, fn>>] # 0

\* (variant: the FileNotFoundError is not caught)
PullMissingDest_raised == Raise("NotFoundError", "Destination folder does not exist", "pull")
\* What pull hands its caller when the destination folder is missing: the
\* FileNotFoundError it raises is caught by its own handler and returned.
PullMissingDest == Err("NotFoundError", "Destination folder does not exist", "pull")

\* Whether pull goes on to the manifest download after
\* ensure_dvc_repository handed back ensureRes.
PullContinues(ensureRes) == ensureRes.mode # "raise"

\* pull(stage_type, dvc_filename, folder_path).
pull(stage, fn, folder, o) ==
    LET same == [res |-> NoRes, ensure |-> NoRes, config |-> NoRes,
                 download |-> NoRes, dvcDir |-> dvcDir, bucket |-> bucket, cfg |-> remoteCfg,
                 destManifest |-> destManifest, destPayload |-> destPayload,
                 cmds |-> <<>>]
    IN
    IF ~DestExists(folder)
    THEN [same EXCEPT !.res = PullMissingDest]
    ELSE
      LET e  == ensure_dvc_repository(folder, stage, o)
          s1 == [same EXCEPT !.ensure = e.res, !.config = e.config,
                             !.dvcDir = e.dvcDir, !.bucket = e.bucket,
                             !.cfg = e.cfg, !.cmds = e.cmds]
      IN
      IF ~PullContinues(e.res)
      THEN [s1 EXCEPT !.res = Err(e.res.kind, e.res.msg, "pull")]
      ELSE IF ~download_file(stage, fn, o)
      THEN [s1 EXCEPT !.res = Err("StorageError", "Failed to download .dvc file", "pull"),
                      !.download = Raise("StorageError", "download_file failed", "download"),
                      !.cmds = Append(e.cmds, "download_file")]
      ELSE IF ~o.dvcPull
      THEN [s1 EXCEPT !.res = Err("ExternalToolError", "stdout/stderr", "pull"),
                      !.download = Ok("downloaded", "download"),
                      !.destManifest = [destManifest EXCEPT ![fn] = remote[<<stage, fn>>]],
                      !.cmds = e.cmds \o <<"download_file", "dvc pull">>]
      ELSE [s1 EXCEPT !.res = Ok("stdout/stderr", "pull"),
                      !.download = Ok("downloaded", "download"),
                      !.destManifest = [destManifest EXCEPT ![fn] = remote[<<stage, fn>>]],
                      !.destPayload = TRUE,
                      !.cmds = e.cmds \o <<"download_file", "dvc pull">>]

\* -------------------------------------------------------------------- state
\* The outcomes a call can observe from the current state: a call that stops
\* at its existence check runs no command, and ensure_dvc_repository runs
\* none once .dvc exists.
AllOkAdd == CHOOSE o \in AddOutcomes :
    o.dvcAdd /\ o.wrote /\ o.copy /\ o.gitAdd /\ o.gitStatus /\ o.gitCommit
AddOutcomesAt(path) ==
    IF FolderExists(path) THEN AddOutcomes ELSE {AllOkAdd}
EnsureOutcomesAt(folder) ==
    IF DestExists(folder) /\ ~dvcDir THEN EnsureOutcomes
    ELSE {o \in EnsureOutcomes :
            o.init /\ o.head /\ o.create /\ o.cfg = Len(CfgCmds)}
PullOutcomesAt(folder) ==
    IF ~DestExists(folder)
    THEN {o \in PullOutcomes : o.init /\ o.head /\ o.create
                               /\ o.cfg = Len(CfgCmds) /\ o.download /\ o.dvcPull}
    ELSE IF dvcDir
    THEN {o \in PullOutcomes :
            o.init /\ o.head /\ o.create /\ o.cfg = Len(CfgCmds)}
    ELSE PullOutcomes

NoArgs == [op |-> "none", path |-> "none", name |-> "none", stage |-> "none"]
Call(op, path, name, stage) ==
    [op |-> op, path |-> path, name |-> name, stage |-> stage]

Init ==
    /\ content = 1
    /\ manifest = [n \in AllNames |-> 0]
    /\ archive = [k \in Keys |-> 0]
    /\ gitHead = [k \in Keys |-> 0]
    /\ bucket \in BOOLEAN
    /\ remote = [k \in Keys |-> 0]
    /\ pushed = {}
    /\ dvcDir = FALSE
    /\ remoteCfg = NoRemote
    /\ destManifest = [n \in Names |-> 0]
    /\ destPayload = FALSE
    /\ parentCfg = NoRemote
    /\ pc = "idle"
    /\ args = NoArgs
    /\ cmds = <<>>
    /\ steps = <<>>
    /\ sub = NoSub
    /\ ret = NoRes
    /\ ncalls = 0

\* The pipeline stage rewrites the artifact folder (new content).
EditFolder ==
    /\ pc = "idle"
    /\ ncalls < MaxCalls
    /\ ncalls' = ncalls + 1
    /\ \E c \in (1..MaxContent) \ {content} : content' = c
    /\ UNCHANGED <<parentCfg, manifest, archive, gitHead, store, dest, pc, args, cmds,
                   steps, sub, ret>>

\* ------------------------------------------------------ add_and_push_data
\* (variant: the status of the step is not looked at)
NextStep_unchecked(r, next) == next
\* Where add_and_push_data goes after a step handed back r: it returns (or
\* the exception propagates) on failure, else it runs the step next.
NextStep(r, next) ==
    IF r.mode = "raise" \/ r.status = "error" THEN "idle" ELSE next

\* What add_and_push_data returns after its last step handed back r.
PublishReturn(r) ==
    IF r.mode = "raise" \/ r.status = "error" THEN r
    ELSE Ok("added, pushed and uploaded", "add_and_push_data")

\* Entry of add_and_push_data(folder_path, folder_name, stage_type).
PublishCall(path, name, stage) ==
    /\ pc = "idle"
    /\ ncalls < MaxCalls
    /\ ncalls' = ncalls + 1
    /\ args' = Call("add_and_push_data", path, name, stage)
    /\ cmds' = <<>>
    /\ steps' = <<>>
    /\ sub' = NoSub
    /\ IF FolderExists(path)
       THEN pc' = "add" /\ ret' = NoRes
       ELSE /\ pc' = "idle"
            /\ ret' = Raise("NotFoundError", "folder does not exist", "add_and_push_data")
    /\ UNCHANGED <<parentCfg, disk, store, dest>>

\* DVC ADD
PublishAdd ==
    /\ pc = "add"
    /\ \E o \in AddOutcomes :
         LET a == add(args.path, args.name, args.stage, o) IN
         /\ manifest' = a.manifest
         /\ archive' = a.archive
         /\ gitHead' = a.head
         /\ cmds' = cmds \o a.cmds
         /\ steps' = Append(steps, "add")
         /\ sub' = [sub EXCEPT !.add = a.res, !.commit = a.commit]
         /\ pc' = NextStep(a.res, "push")
         /\ ret' = IF NextStep(a.res, "push") = "idle" THEN a.res ELSE NoRes
    /\ UNCHANGED <<parentCfg, ncalls, content, store, dest, args>>

\* DVC PUSH
PublishPush ==
    /\ pc = "push"
    /\ \E o \in PushOutcomes :
         LET p == push(args.path, o) IN
         /\ pushed' = p.pushed
         /\ parentCfg' = p.cfg
         /\ cmds' = cmds \o p.cmds
         /\ steps' = Append(steps, "push")
         /\ sub' = [sub EXCEPT !.push = p.res]
         /\ pc' = NextStep(p.res, "upload")
         /\ ret' = IF NextStep(p.res, "upload") = "idle" THEN p.res ELSE NoRes
    /\ UNCHANGED <<ncalls, disk, bucket, remote, dest, args>>

\* upload of the .dvc file, then the final return
PublishUpload ==
    /\ pc = "upload"
    /\ \E o \in UploadOutcomes :
         LET u == upload_dvc_file_to_minio(args.name, args.stage, o) IN
         /\ bucket' = u.bucket
         /\ remote' = u.remote
         /\ cmds' = cmds \o u.cmds
         /\ steps' = Append(steps, "upload")
         /\ sub' = [sub EXCEPT !.upload = u.res, !.bucket_exists = u.exists]
         /\ pc' = "idle"
         /\ ret' = PublishReturn(u.res)
    /\ UNCHANGED <<parentCfg, ncalls, disk, pushed, dest, args>>

\* ------------------------------------------------- the methods called alone
Add(path, name, stage) ==
    /\ pc = "idle"
    /\ ncalls < MaxCalls
    /\ ncalls' = ncalls + 1
    /\ \E o \in AddOutcomesAt(path) :
         LET a == add(path, name, stage, o) IN
         /\ manifest' = a.manifest
         /\ archive' = a.archive
         /\ gitHead' = a.head
         /\ cmds' = a.cmds
         /\ sub' = [NoSub EXCEPT !.add = a.res, !.commit = a.commit]
         /\ ret' = a.res
    /\ args' = Call("add", path, name, stage)
    /\ steps' = <<>>
    /\ UNCHANGED <<parentCfg, content, store, dest, pc>>

Push(path) ==
    /\ pc = "idle"
    /\ ncalls < MaxCalls
    /\ ncalls' = ncalls + 1
    /\ \E o \in PushOutcomes :
         LET p == push(path, o) IN
         /\ pushed' = p.pushed
         /\ parentCfg' = p.cfg
         /\ cmds' = p.cmds
         /\ sub' = [NoSub EXCEPT !.push = p.res]
         /\ ret' = p.res
    /\ args' = Call("push", path, "none", "none")
    /\ steps' = <<>>
    /\ UNCHANGED <<disk, bucket, remote, dest, pc>>

Upload(name, stage) ==
    /\ pc = "idle"
    /\ ncalls < MaxCalls
    /\ ncalls' = ncalls + 1
    /\ \E o \in UploadOutcomes :
         LET u == upload_dvc_file_to_minio(name, stage, o) IN
         /\ bucket' = u.bucket
         /\ remote' = u.remote
         /\ cmds' = u.cmds
         /\ sub' = [NoSub EXCEPT !.upload = u.res, !.bucket_exists = u.exists]
         /\ ret' = u.res
    /\ args' = Call("upload", "none", name, stage)
    /\ steps' = <<>>
    /\ UNCHANGED <<parentCfg, disk, pushed, dest, pc>>

CommitStep ==
    /\ pc = "idle"
    /\ ncalls < MaxCalls
    /\ ncalls' = ncalls + 1
    /\ \E o \in GitOutcomes :
         LET g == git_add_commit_and_push(archive, gitHead, o) IN
         /\ gitHead' = g.head
         /\ cmds' = g.cmds
         /\ sub' = [NoSub EXCEPT !.commit = g.res]
         /\ ret' = g.res
    /\ args' = Call("commit", "none", "none", "none")
    /\ steps' = <<>>
    /\ UNCHANGED <<parentCfg, content, manifest, archive, store, dest, pc>>

EnsureVersioned(folder, stage) ==
    /\ pc = "idle"
    /\ ncalls < MaxCalls
    /\ ncalls' = ncalls + 1
    /\ \E o \in EnsureOutcomesAt(folder) :
         LET e == ensure_dvc_repository(folder, stage, o) IN
         /\ dvcDir' = e.dvcDir
         /\ bucket' = e.bucket
         /\ remoteCfg' = e.cfg
         /\ cmds' = e.cmds
         /\ sub' = [NoSub EXCEPT !.ensure = e.res, !.config = e.config]
         /\ ret' = e.res
    /\ args' = Call("ensure", folder, "none", stage)
    /\ steps' = <<>>
    /\ UNCHANGED <<parentCfg, disk, remote, pushed, destManifest, destPayload, pc>>

Pull(stage, fn, folder) ==
    /\ pc = "idle"
    /\ ncalls < MaxCalls
    /\ ncalls' = ncalls + 1
    /\ \E o \in PullOutcomesAt(folder) :
         LET r == pull(stage, fn, folder, o) IN
         /\ dvcDir' = r.dvcDir
         /\ bucket' = r.bucket
         /\ remoteCfg' = r.cfg
         /\ destManifest' = r.destManifest
         /\ destPayload' = r.destPayload
         /\ cmds' = r.cmds
         /\ sub' = [NoSub EXCEPT !.ensure = r.ensure, !.config = r.config,
                                 !.download = r.download]
         /\ ret' = r.res
    /\ args' = Call("pull", folder, fn, stage)
    /\ steps' = <<>>
    /\ UNCHANGED <<parentCfg, disk, remote, pushed, pc>>

Next ==
    \/ EditFolder
    \/ \E p \in Folders, n \in Names, s \in Stages : PublishCall(p, n, s)
    \/ PublishAdd
    \/ PublishPush
    \/ PublishUpload
    \/ \E p \in Folders, n \in Names, s \in Stages : Add(p, n, s)
    \/ \E p \in Folders : Push(p)
    \/ \E n \in Names, s \in Stages : Upload(n, s)
    \/ CommitStep
    \/ \E f \in DestFolders, s \in Stages : EnsureVersioned(f, s)
    \/ \E s \in Stages, n \in Names, f \in DestFolders : Pull(s, n, f)

Spec == Init /\ [][Next]_vars

\* Only add_and_push_data and pull are called (no step is called alone).
NextPublish ==
    \/ EditFolder
    \/ \E p \in Folders, n \in Names, s \in Stages : PublishCall(p, n, s)
    \/ PublishAdd
    \/ PublishPush
    \/ PublishUpload
    \/ \E s \in Stages, n \in Names, f \in DestFolders : Pull(s, n, f)

SpecPublish == Init /\ [][NextPublish]_vars

\* The dvc remote the parent directory of the artifact folders may have when
\* the worker is constructed: none, or one fully configured for a stage.
ParentCfgs ==
    {NoRemote} \cup {[url |-> s, applied |-> Len(CfgCmds)] : s \in Stages}

\* As Init, with the parent directory in any of these configurations.
InitParent ==
    /\ content = 1
    /\ manifest = [n \in AllNames |-> 0]
    /\ archive = [k \in Keys |-> 0]
    /\ gitHead = [k \in Keys |-> 0]
    /\ bucket \in BOOLEAN
    /\ remote = [k \in Keys |-> 0]
    /\ pushed = {}
    /\ dvcDir = FALSE
    /\ remoteCfg = NoRemote
    /\ destManifest = [n \in Names |-> 0]
    /\ destPayload = FALSE
    /\ parentCfg \in ParentCfgs
    /\ pc = "idle"
    /\ args = NoArgs
    /\ cmds = <<>>
    /\ steps = <<>>
    /\ sub = NoSub
    /\ ret = NoRes
    /\ ncalls = 0

SpecParent == InitParent /\ [][NextPublish]_vars

\* ==================================================================== claims
IsPublish == args.op = "add_and_push_data"
Succeeded(r) == r.mode = "return" /\ r.status = "success"
PublishOrder == <<"add", "push", "upload">>
Finished == pc = "idle" /\ ret # NoRes

\* C1: add_and_push_data runs add, push, upload in that order; a step is
\* invoked only if every earlier step of the call returned success; a step
\* that returns an error ends the call, which returns that step's dict
\* unchanged; the call returns success only if all three steps did.
C1_PublishShortCircuits ==
    IsPublish =>
      /\ Len(steps) <= Len(PublishOrder)
      /\ \A i \in 1..Len(steps) :
           /\ steps[i] = PublishOrder[i]
           /\ sub[steps[i]] # NoRes
           /\ i > 1 => Succeeded(sub[steps[i - 1]])
           /\ sub[steps[i]].status = "error" =>
                i = Len(steps) /\ pc = "idle" /\ ret = sub[steps[i]]
      /\ \A s \in {"add", "push", "upload"} :
           sub[s] # NoRes => Ran(s, steps)
      /\ Ran("dvc push", cmds) => Succeeded(sub.add)
      /\ (Ran("head_bucket", cmds) \/ Ran("upload_file", cmds)) =>
           Succeeded(sub.add) /\ Succeeded(sub.push)
      /\ Succeeded(ret) =>
           /\ steps = PublishOrder
           /\ \A s \in {"add", "push", "upload"} : Succeeded(sub[s])

\* C1 witness: a call in which add and push succeeded and upload returned
\* an error, which the call returned.
C1_Witness ==
    /\ IsPublish /\ pc = "idle"
    /\ steps = PublishOrder
    /\ sub.upload.status = "error"
    /\ ret = sub.upload

\* C2: add returns success only if the commit step reported success.
C2_AddSuccessNeedsCommit ==
    (sub.add # NoRes /\ Succeeded(sub.add)) => Succeeded(sub.commit)

\* C3: when dvc add exits zero and {folder_name}.dvc is absent afterwards,
\* add returns the ".dvc file not found" error, copies nothing, runs no
\* git command, and add_and_push_data neither pushes nor uploads.
C3_MissingManifestStops ==
    (/\ args.op \in {"add", "add_and_push_data"}
     /\ Ran("dvc add", cmds)
     /\ sub.add.kind # "ExternalToolError"
     /\ manifest[args.name] = 0)
    =>
      /\ sub.add = Err("IntegrityError", ".dvc file not found", "add")
      /\ cmds = <<"dvc add">>
      /\ sub.commit = NoRes
      /\ \A k \in Keys : k[2] = args.name => archive[k] = 0
      /\ pc = "idle" /\ ret = sub.add
      /\ sub.push = NoRes /\ sub.upload = NoRes

\* C3 witness: add_and_push_data on the existing folder, named as the
\* folder, ended on the missing-manifest error.
C3_Witness ==
    /\ IsPublish /\ pc = "idle"
    /\ args.path = "result" /\ args.name = "result"
    /\ ret.kind = "IntegrityError"
    /\ manifest["result"] = 0

\* The step is the entry of a call (a rewrite of the folder changes content).
CallStep == ncalls' = ncalls + 1 /\ content' = content

\* The step is a call of add or add_and_push_data on a folder that does
\* not exist.
MissingFolderCall ==
    /\ CallStep
    /\ args'.op \in {"add", "add_and_push_data"}
    /\ args'.path \notin ExistingFolders

C5_ConfigFailureSurfaced ==
    (sub.config.status = "error" /\ sub.config.kind = "ExternalToolError")
    =>
      /\ Failed(sub.ensure) /\ sub.ensure.kind = "ExternalToolError"
      /\ args.op = "pull" =>
           /\ Failed(ret)
           /\ ~Ran("download_file", cmds)
           /\ ~Ran("dvc pull", cmds)

\* The step is a call of pull with a destination folder that does not exist.
MissingDestCall ==
    /\ CallStep
    /\ args'.op = "pull"
    /\ args'.path \notin ExistingDest

\* C6: pull with a destination folder that does not exist returns the
\* NotFoundError result and makes no invocation at all: no head_bucket, no
\* create_bucket, no download_file, no dvc init, no dvc remote command, no
\* dvc pull; nothing on disk or in the store changes.
C6_MissingDestNoNetwork ==
    [][MissingDestCall =>
         /\ ret' = Err("NotFoundError", "Destination folder does not exist", "pull")
         /\ cmds' = <<>>
         /\ sub' = NoSub
         /\ UNCHANGED <<disk, store, dest>>]_vars

\* C6 witness: pull was called on the destination that does not exist.
C6_Witness ==
    /\ args.op = "pull" /\ args.path = "nodest"
    /\ ret.status = "error" /\ ret.mode = "return"

\* The remote key {dag_id}_{execution_id}/{stage}/dvc_files/{dvc_filename}
\* of the last call's arguments.
ArgKey == <<args.stage, args.name>>

\* C7: in pull, dvc pull is invoked only right after download_file of the
\* manifest key succeeded in the same call; when the key is not in the
\* store the download fails, pull returns the StorageError result and
\* dvc pull is not invoked.
C7_PullOnlyAfterDownload ==
    args.op = "pull" =>
      /\ Ran("dvc pull", cmds) =>
           /\ Succeeded(sub.download)
           /\ remote[ArgKey] # 0
           /\ destManifest[args.name] = remote[ArgKey]
           /\ Len(cmds) >= 2
           /\ cmds[Len(cmds)] = "dvc pull"
           /\ cmds[Len(cmds) - 1] = "download_file"
      /\ (Ran("download_file", cmds) /\ remote[ArgKey] = 0) =>
           /\ ret = Err("StorageError", "Failed to download .dvc file", "pull")
           /\ ~Ran("dvc pull", cmds)
      /\ Failed(sub.download) =>
           /\ ret = Err("StorageError", "Failed to download .dvc file", "pull")
           /\ ~Ran("dvc pull", cmds)

\* C7 witness: pull asked for a manifest that is not in the store although
\* another one is, and stopped at the download.
C7_Witness ==
    /\ args.op = "pull"
    /\ remote[ArgKey] = 0
    /\ \E k \in Keys : remote[k] # 0
    /\ cmds[Len(cmds)] = "download_file"
    /\ ret.kind = "StorageError"

\* The state of artifact <<stage, name>>, read off the files and the store:
\* tracked = its manifest exists and is copied into the archive, synced =
\* its payload was pushed, backed = its manifest backup is in the store.
Tracked(k) == manifest[k[2]] # 0 /\ archive[k] # 0
Synced(k)  == k[2] \in pushed
Backed(k)  == remote[k] # 0
TrackedNext(k) == manifest'[k[2]] # 0 /\ archive'[k] # 0
SyncedNext(k)  == k[2] \in pushed'
BackedNext(k)  == remote'[k] # 0

\* C8: across add_and_push_data calls an artifact is backed up only when
\* synced, and synced only when tracked; no step takes a state back; a step
\* changes one state at a time: the backup is written only by the upload
\* step of a call whose add and push returned success, dvc push is run only
\* in a call whose add returned success, and a failed push leaves the
\* artifact tracked and archived with no upload made in that call.
C8_PublishStateMachine ==
    /\ [](\A k \in Keys : Backed(k) => Synced(k) /\ Tracked(k))
    /\ [][/\ \A k \in Keys :
               /\ Tracked(k) => TrackedNext(k)
               /\ Synced(k) => SyncedNext(k)
               /\ Backed(k) => BackedNext(k)
               /\ (~Backed(k) /\ BackedNext(k)) => Synced(k) /\ Tracked(k)
               /\ (~Synced(k) /\ SyncedNext(k)) =>
                    (Tracked(k) \/ ~TrackedNext(k)) /\ Backed(k) = BackedNext(k)
               /\ (~Tracked(k) /\ TrackedNext(k)) =>
                    Synced(k) = SyncedNext(k) /\ Backed(k) = BackedNext(k)
          /\ remote' # remote =>
               /\ pc = "upload" /\ Succeeded(sub.add) /\ Succeeded(sub.push)
               /\ \A k \in Keys : remote'[k] # remote[k] => k = ArgKey
          /\ pushed' # pushed =>
               /\ pc = "push" /\ Succeeded(sub.add) /\ Tracked(ArgKey)
          /\ (pc = "push" /\ pc' = "idle") =>
               /\ Failed(ret') /\ ret' = sub'.push
               /\ Tracked(ArgKey) /\ TrackedNext(ArgKey)
               /\ remote' = remote /\ pushed' = pushed
               /\ ~Ran("head_bucket", cmds') /\ ~Ran("upload_file", cmds')
          /\ (pc = "add" /\ pc' = "idle") =>
               /\ Failed(ret') /\ ret' = sub'.add
               /\ remote' = remote /\ pushed' = pushed
               /\ ~Ran("dvc push", cmds')
         ]_vars

\* C8 witness: a call whose add succeeded and whose push failed left the
\* artifact tracked and archived, neither synced nor backed up.
C8_Witness ==
    /\ IsPublish /\ pc = "idle"
    /\ steps = <<"add", "push">>
    /\ sub.push.status = "error"
    /\ Tracked(ArgKey) /\ ~Synced(ArgKey) /\ ~Backed(ArgKey)

CommitStepRan ==
    /\ sub'.commit # NoRes
    /\ CallStep \/ pc = "add"

\* C10: the commit step runs git add first; with nothing to commit (the
\* staged archive equals the last commit) it never runs git commit and,
\* staging and status having succeeded, returns success "No changes to
\* commit" leaving the history as it was; git commit is run exactly when
\* git add and git status succeeded and the status output is not empty.
C10_CommitOnlyWhenDirty ==
    [][CommitStepRan =>
         /\ Ran("git add", cmds')
         /\ archive' = gitHead => ~Ran("git commit", cmds')
         /\ Ran("git commit", cmds') =>
              /\ archive' # gitHead
              /\ Len(cmds') >= 3
              /\ SubSeq(cmds', Len(cmds') - 2, Len(cmds')) =
                   <<"git add", "git status", "git commit">>
         /\ (~Ran("git commit", cmds') /\ Succeeded(sub'.commit)) =>
              /\ archive' = gitHead
              /\ sub'.commit = Ok("No changes to commit", "commit")
              /\ gitHead' = gitHead
         /\ (~Ran("git commit", cmds') /\ Failed(sub'.commit)) =>
              /\ cmds'[Len(cmds')] \in {"git add", "git status"}
              /\ gitHead' = gitHead
         /\ Succeeded(sub'.commit) => gitHead' = archive'
      ]_vars

\* C10 witness: the commit step found a non-empty archive unmodified and
\* returned "No changes to commit" without running git commit.
C10_Witness ==
    /\ sub.commit = Ok("No changes to commit", "commit")
    /\ \E k \in Keys : archive[k] # 0
    /\ ~Ran("git commit", cmds)

\* A step that starts and finishes a call of ensure_dvc_repository.
EnsureCall == CallStep /\ args'.op = "ensure"

\* The remote of the destination folder is fully configured: every command
\* of configure_remote has been applied.
FullyConfigured == dvcDir /\ remoteCfg.applied = Len(CfgCmds)

\* C11: ensure_dvc_repository is idempotent.  A call on a folder that an
\* earlier call initialized and fully configured returns without an error,
\* runs neither dvc init nor any dvc remote command, and leaves .dvc and
\* the remote configuration (URL, endpoint, credentials, use_ssl) exactly
\* as they were, whatever stage_type the later call is given.
C11_EnsureIdempotent ==
    [][(EnsureCall /\ FullyConfigured /\ args'.path \in ExistingDest) =>
         /\ ret' = None("ensure")
         /\ cmds' = <<>>
         /\ sub'.config = NoRes
         /\ remoteCfg' = remoteCfg
         /\ dvcDir' = dvcDir
         /\ bucket' = bucket
      ]_vars

\* C11 witness: the second call of the run was ensure_dvc_repository on
\* the fully configured folder, given a stage_type other than the one the
\* remote URL was configured with, and it returned None.
C11_Witness ==
    /\ ncalls = 2
    /\ args.op = "ensure"
    /\ args.path \in ExistingDest
    /\ remoteCfg.applied = Len(CfgCmds)
    /\ remoteCfg.url # args.stage
    /\ cmds = <<>>
    /\ ret = None("ensure")

\* The artifact of the running call is already published with its present
\* content: manifest, archive copy and remote backup all carry it (dvc add
\* writes the same manifest for the same content).
Published ==
    /\ args.name = args.path
    /\ manifest[args.name] = content
    /\ archive[ArgKey] = content
    /\ remote[ArgKey] = content

\* C12: add_and_push_data run again on an artifact already published with
\* unchanged content leaves the archive copy and the remote backup key of
\* the manifest as they were, its commit step does not run git commit and,
\* when it returns success, returns "No changes to commit" with the history
\* unchanged, and the call returns success when its three steps succeeded.
C12_RepublishIsNoOp ==
    [][(pc # "idle" /\ IsPublish /\ Published) =>
         /\ archive'[ArgKey] = archive[ArgKey]
         /\ remote'[ArgKey] = remote[ArgKey]
         /\ pc = "add" =>
              /\ ~Ran("git commit", cmds')
              /\ gitHead' = gitHead
              /\ Succeeded(sub'.commit) =>
                   sub'.commit = Ok("No changes to commit", "commit")
         /\ (pc = "upload" /\ Succeeded(sub'.upload)) => Succeeded(ret')
      ]_vars

\* C13: publish calls of one execution context given different stage_type
\* values write to disjoint places.  Every step writes at most the archive
\* file {git_repo_path}/{stage_type}/{stage_type}_{folder_name}/ and the
\* remote key {dag_id}_{execution_id}/{stage_type}/dvc_files/ of the
\* stage_type and folder_name of the call it belongs to; the archive files
\* and remote manifest keys of every other stage_type stay as they were.
C13_StagesDisjoint ==
    [][\A k \in Keys :
         k # <<args'.stage, args'.name>> =>
           /\ archive'[k] = archive[k]
           /\ remote'[k] = remote[k]
      ]_vars

\* C13 witness: the second of two add_and_push_data calls has returned
\* success for stage_type train after an earlier call archived and backed
\* up the manifest of the same folder for stage_type preprocess.
C13_Witness ==
    /\ ncalls = 2
    /\ IsPublish /\ pc = "idle" /\ Succeeded(ret)
    /\ args.stage = "train"
    /\ archive[<<"preprocess", args.name>>] # 0
    /\ remote[<<"preprocess", args.name>>] # 0
    /\ archive[<<"train", args.name>>] # 0
    /\ remote[<<"train", args.name>>] # 0

\* A step in which upload_dvc_file_to_minio runs, alone or as the last
\* step of add_and_push_data.
UploadStep == (CallStep /\ args'.op = "upload") \/ pc = "upload"

\* The invocations upload_dvc_file_to_minio made in the step.
UploadCmds == SubSeq(cmds', Len(cmds') - Len(SelectSeq(cmds', LAMBDA c :
                  c \in {"head_bucket", "create_bucket", "upload_file"})) + 1,
                  Len(cmds'))

\* C14: bucket_exists never raises; it returns True exactly when
\* head_bucket returned normally, and False both for NoSuchBucket and for
\* any other exception.  upload_dvc_file_to_minio calls create_bucket
\* exactly when the check returned False, right after the check and before
\* upload_file; it returns success only after upload_file went through on
\* an existing bucket, and every failure of create_bucket or upload_file
\* is returned as an error dict (never raised).
C14_BucketCheckAndUpload ==
    [][UploadStep =>
         LET e == sub'.bucket_exists
             u == sub'.upload
         IN
         /\ e.mode = "return" /\ e.by = "bucket_exists"
         /\ e.msg \in {"True", "False"}
         /\ e.msg = "True" <=> e.kind = "none"
         /\ e.kind = "none" => bucket
         /\ ~bucket => e.kind = "NoSuchBucket"
         /\ UploadCmds[1] = "head_bucket"
         /\ e.msg = "False" <=> Ran("create_bucket", UploadCmds)
         /\ e.msg = "False" => UploadCmds[2] = "create_bucket"
         /\ \A i \in 1..Len(UploadCmds) :
              UploadCmds[i] = "upload_file" =>
                /\ i = Len(UploadCmds)
                /\ i = IF e.msg = "True" THEN 2 ELSE 3
         /\ u.mode = "return"
         /\ u.status \in {"success", "error"}
         /\ Failed(u) => u.kind = "StorageError"
         /\ ~Ran("upload_file", UploadCmds) =>
              /\ u = Err("StorageError", "create_bucket failed", "upload")
              /\ remote' = remote /\ bucket' = bucket
         /\ Failed(u) => remote' = remote
         /\ Succeeded(u) =>
              /\ Ran("upload_file", UploadCmds)
              /\ bucket'
              /\ remote'[<<args'.stage, args'.name>>] = manifest[args'.name]
              /\ manifest[args'.name] # 0
         /\ ret' = IF pc = "upload" THEN PublishReturn(u) ELSE u
      ]_vars

\* C14 witness: head_bucket raised an exception other than NoSuchBucket on
\* an existing bucket, bucket_exists answered False, create_bucket was
\* called and failed, and the upload step returned the error.
C14_Witness ==
    /\ sub.bucket_exists.kind = "Exception"
    /\ sub.bucket_exists.msg = "False"
    /\ bucket
    /\ Ran("create_bucket", cmds)
    /\ ~Ran("upload_file", cmds)
    /\ ret = Err("StorageError", "create_bucket failed", "upload")

\* A dvc init or dvc remote command is among the invocations c.
RanInitOrRemote(c) ==
    Ran("dvc init", c) \/ \E i \in 1..Len(CfgCmds) : Ran(CfgCmds[i], c)

\* C15: once .dvc exists in a folder, nothing run later issues dvc init or
\* a dvc remote add/modify command there: .dvc stays, and the remote stays
\* exactly as configure_remote left it, so a remote left partly configured
\* or unconfigured by a failed first call is never repaired by a later
\* ensure_dvc_repository or pull.
C15_NoRepairAfterInit ==
    [][dvcDir =>
         /\ dvcDir'
         /\ remoteCfg' = remoteCfg
         /\ (CallStep /\ args'.op \in {"ensure", "pull"}) =>
              /\ ~RanInitOrRemote(cmds')
              /\ sub'.config = NoRes
              /\ args'.path \in ExistingDest => sub'.ensure = None("ensure")
      ]_vars

\* C15 witness: the first call initialized the folder and its remote
\* configuration stopped part-way; the second call, ensure_dvc_repository
\* or pull on the same folder, has returned and the remote is still partly
\* configured.
C15_Witness ==
    /\ ncalls = 2
    /\ pc = "idle"
    /\ args.op \in {"ensure", "pull"}
    /\ args.path \in ExistingDest
    /\ dvcDir
    /\ remoteCfg.applied \in 1..(Len(CfgCmds) - 1)
    /\ sub.ensure = None("ensure")
    /\ sub.config = NoRes

\* A step of an add_and_push_data call: its entry or one of add, push, upload.
PublishStep == (CallStep /\ args'.op = "add_and_push_data") \/ pc # "idle"

\* C16: add_and_push_data and its steps add, push and upload run neither
\* dvc init nor a dvc remote add/modify command, so the dvc remote of the
\* parent directory of the artifact (and of every other folder) is the same
\* after any step of any add_and_push_data call as before it; the push step
\* follows every successful add and runs dvc push, whatever remote the
\* parent directory has.
C16_PublishLeavesRemote ==
    [][PublishStep =>
         /\ ~RanInitOrRemote(cmds')
         /\ parentCfg' = parentCfg
         /\ remoteCfg' = remoteCfg
         /\ dvcDir' = dvcDir
         /\ (pc = "add" /\ Succeeded(sub'.add)) => pc' = "push"
         /\ pc = "push" => cmds'[Len(cmds')] = "dvc push"
      ]_vars

\* C16 witness: the second add_and_push_data call of the run, for stage
\* train, ran dvc push and returned success in a parent directory whose
\* only remote was configured for stage preprocess.
C16_Witness ==
    /\ ncalls = 2
    /\ IsPublish /\ pc = "idle" /\ Succeeded(ret)
    /\ args.stage = "train"
    /\ parentCfg = [url |-> "preprocess", applied |-> Len(CfgCmds)]
    /\ Ran("dvc push", cmds)

====
